---------------------------- MODULE Spec2Model ----------------------------
(***************************************************************************)
(* Model of Strategies_Skeleton_Final.py: the module-level pipeline        *)
(*   ticker sources -> merge/deduplicate -> symbol remap -> statement      *)
(*   table -> growth filter -> selected tickers -> market-cap weights.     *)
(*                                                                         *)
(* Ticker symbols are sequences of characters, so that the remapping       *)
(* str.replace('.', '-') is modelled by what it does to the characters.    *)
(* Money amounts are integers; NaN stands for pandas' null.  A weight is   *)
(* an integer number of hundredths of a percent (2500 is 25.00).           *)
(***************************************************************************)
EXTENDS Integers, Sequences, FiniteSets, TLC

\* ------------------------------------------------------------- bounds
\* longest symbol list a ticker source page holds
MaxLen == 2
\* most rows the long-form statement table holds
MaxRows == 3
\* longest ticker list handed to calculate_market_cap_weights
MaxSel == 3
\* largest market capitalisation the provider reports
MaxCap == 4

\* ------------------------------------------------------------ symbols
AAPL == <<"A", "A", "P", "L">>
MSFT == <<"M", "S", "F", "T">>
BRK_DOT_B == <<"B", "R", "K", ".", "B">>
BRK_DASH_B == <<"B", "R", "K", "-", "B">>
BF_DOT_B == <<"B", "F", ".", "B">>
BF_DASH_B == <<"B", "F", "-", "B">>

\* the symbols the ticker sources may list
SourceSymbols == {AAPL, BRK_DOT_B, BRK_DASH_B}
\* the symbols of the universes the screener and the weights are run on
ScreenSymbols == {AAPL, MSFT}
WeightSymbols == {AAPL, MSFT, BRK_DASH_B}

\* A nullable number is a sequence: <<>> is null (pandas NaN, Python None),
\* <<x>> is the number x.
NaN == <<>>
None == <<>>
Num(x) == <<x>>
IsNull(a) == Len(a) = 0
Val(a) == a[1]

VARIABLES
    pc,                 \* position in the module-level script (lines 274-297)
    run,                \* 1 or 2: which execution of the script this is
    web,                \* ticker source -> the response it gives (fixed once seen)
    financials,         \* symbol -> the provider's statement rows (fixed once seen)
    info,               \* symbol -> the provider's marketCap (fixed once seen)
    sp_500_tickers,     \* line 274
    dow_jones_tickers,  \* line 275
    nasdaq_tickers,     \* line 276
    tickers,            \* lines 277, 280
    idx,                \* position of the running for loop (lines 199, 255)
    data,               \* fetch_fundamental_data: rows stacked so far (line 212)
    final_df,           \* line 285
    shifted,            \* row -> the row df[...].shift(1) reads for it, 0 for none
    growth_filter,      \* line 289
    selected_tickers,   \* line 290
    market_caps,        \* calculate_market_cap_weights: the dict, insertion order
    weights,            \* line 293
    output1             \* what the first execution printed (lines 295-297)

vars == <<pc, run, web, financials, info, sp_500_tickers, dow_jones_tickers,
          nasdaq_tickers, tickers, idx, data, final_df, shifted, growth_filter,
          selected_tickers, market_caps, weights, output1>>

\* ------------------------------------------------------------ helpers
Range(s) == {s[i] : i \in DOMAIN s}

SeqsUpTo(S, n) == UNION {[1..k -> S] : k \in 0..n}

NoDuplicates(s) == \A i, j \in DOMAIN s : s[i] = s[j] => i = j

\* every order in which a set may be enumerated
Orders(S) == {s \in [1..Cardinality(S) -> S] : Range(s) = S}

\* the external answer to a query: the one already given, else any of Domain
Answer(known, key, Domain) == IF key \in DOMAIN known THEN {known[key]} ELSE Domain

Remember(known, key, r) == IF key \in DOMAIN known THEN known ELSE known @@ (key :> r)

EmptyFn == [x \in {} |-> x]

\* ---------------------------------------------------- ticker sources
\* What a ticker source's web page may answer: the page with its symbol
\* column, a network error, a non-200 status, or a page without the table.
WebResponses ==
    {[status |-> "ok", page |-> p] : p \in SeqsUpTo(SourceSymbols, MaxLen)}
    \cup {[status |-> s, page |-> <<>>] :
            s \in {"network_error", "http_error", "no_table"}}

\* fetch_sp500_tickers: requests.get raises on a network error,
\* raise_for_status() on a non-200 status, table.find_all on a missing table
\* (table is None); nothing catches any of them.
Sp500Result(r) ==
    IF r.status = "ok" THEN [raised |-> FALSE, value |-> r.page]
    ELSE [raised |-> TRUE, value |-> <<>>]

\* get_dow_jones_tickers: the try/except, the status test and `if table:`
\* turn every failure into an empty list.
DowJonesResult(r) ==
    IF r.status = "ok" THEN [raised |-> FALSE, value |-> r.page]
    ELSE [raised |-> FALSE, value |-> <<>>]

\* get_nasdaq_100_ticker_symbols: requests.get is not guarded; a non-200 page
\* or a page without a 'Symbol' table gives the empty list.
Nasdaq100Result(r) ==
    IF r.status = "ok" THEN [raised |-> FALSE, value |-> r.page]
    ELSE IF r.status = "network_error" THEN [raised |-> TRUE, value |-> <<>>]
    ELSE [raised |-> FALSE, value |-> <<>>]

fetch_sp500_tickers ==
    /\ pc = "sp500"
    /\ \E r \in Answer(web, "sp500", WebResponses) :
         /\ web' = Remember(web, "sp500", r)
         /\ sp_500_tickers' = Sp500Result(r).value
         /\ pc' = IF Sp500Result(r).raised THEN "aborted" ELSE "dow"
    /\ UNCHANGED <<run, financials, info, dow_jones_tickers, nasdaq_tickers,
                   tickers, idx, data, final_df, shifted, growth_filter,
                   selected_tickers, market_caps, weights, output1>>

get_dow_jones_tickers ==
    /\ pc = "dow"
    /\ \E r \in Answer(web, "dow", WebResponses) :
         /\ web' = Remember(web, "dow", r)
         /\ dow_jones_tickers' = DowJonesResult(r).value
         /\ pc' = IF DowJonesResult(r).raised THEN "aborted" ELSE "nasdaq"
    /\ UNCHANGED <<run, financials, info, sp_500_tickers, nasdaq_tickers,
                   tickers, idx, data, final_df, shifted, growth_filter,
                   selected_tickers, market_caps, weights, output1>>

get_nasdaq_100_ticker_symbols ==
    /\ pc = "nasdaq"
    /\ \E r \in Answer(web, "nasdaq", WebResponses) :
         /\ web' = Remember(web, "nasdaq", r)
         /\ nasdaq_tickers' = Nasdaq100Result(r).value
         /\ pc' = IF Nasdaq100Result(r).raised THEN "aborted" ELSE "merge"
    /\ UNCHANGED <<run, financials, info, sp_500_tickers, dow_jones_tickers,
                   tickers, idx, data, final_df, shifted, growth_filter,
                   selected_tickers, market_caps, weights, output1>>

\* --------------------------------------------------- universe builder
\* set().union(*lists) followed by list(): the distinct elements, in whatever
\* order the set enumerates them (string hashing is randomised per process).
MergeResults(a, b, c) == Orders(Range(a) \cup Range(b) \cup Range(c))

merge_and_deduplicate_dynamic ==
    /\ pc = "merge"
    /\ \E l \in MergeResults(nasdaq_tickers, sp_500_tickers, dow_jones_tickers) :
         tickers' = l
    /\ pc' = "remap"
    /\ UNCHANGED <<run, web, financials, info, sp_500_tickers, dow_jones_tickers,
                   nasdaq_tickers, idx, data, final_df, shifted, growth_filter,
                   selected_tickers, market_caps, weights, output1>>

\* str.replace(old, new) on single characters
Replace(t, old, new) == [i \in DOMAIN t |-> IF t[i] = old THEN new ELSE t[i]]

\* line 280, one element of the comprehension
RemapSymbol(t) ==
    IF t \in {BRK_DOT_B, BF_DOT_B} THEN Replace(t, ".", "-") ELSE t

RemapSymbols ==
    /\ pc = "remap"
    /\ tickers' = [i \in DOMAIN tickers |-> RemapSymbol(tickers[i])]
    /\ pc' = "download"
    /\ UNCHANGED <<run, web, financials, info, sp_500_tickers, dow_jones_tickers,
                   nasdaq_tickers, idx, data, final_df, shifted, growth_filter,
                   selected_tickers, market_caps, weights, output1>>

\* line 282: the price history is downloaded and never read again
download_stock_data ==
    /\ pc = "download"
    /\ pc' = "fetch"
    /\ idx' = 1
    /\ UNCHANGED <<run, web, financials, info, sp_500_tickers, dow_jones_tickers,
                   nasdaq_tickers, tickers, data, final_df, shifted,
                   growth_filter, selected_tickers, market_caps, weights, output1>>

\* ------------------------------------------------ statement assembler
\* One reporting period of one ticker as the provider gives it: the line
\* items the growth filter reads, each a nullable number.
Base ==
    [TotalRevenue |-> Num(150), OperatingIncome |-> Num(30), EBITDA |-> Num(40),
     DilutedEPS |-> Num(2), NetDebt |-> Num(-10), StockholdersEquity |-> Num(100),
     InterestExpense |-> Num(1), FreeCashFlow |-> Num(20), NetIncome |-> Num(20),
     SGA |-> Num(15), CapitalExpenditure |-> Num(-5)]

\* a period with lower revenue and lower EPS than Base
Earlier == [Base EXCEPT !.TotalRevenue = Num(100), !.DilutedEPS = Num(1)]

\* a period with higher revenue and higher EPS than Base
Later == [Base EXCEPT !.TotalRevenue = Num(200), !.DilutedEPS = Num(3)]

\* Base with the EPS of Earlier
FlatEPS == [Base EXCEPT !.DilutedEPS = Num(1)]

Columns ==
    {"TotalRevenue", "OperatingIncome", "EBITDA", "DilutedEPS", "NetDebt",
     "StockholdersEquity", "InterestExpense", "FreeCashFlow", "NetIncome",
     "SGA", "CapitalExpenditure"}

\* Base with one line item missing, zero, or failing its criterion
Deviations ==
    {[Base EXCEPT !.TotalRevenue = NaN], [Base EXCEPT !.TotalRevenue = Num(0)],
     [Base EXCEPT !.StockholdersEquity = NaN],
     [Base EXCEPT !.StockholdersEquity = Num(0)],
     [Base EXCEPT !.OperatingIncome = NaN], [Base EXCEPT !.NetIncome = NaN],
     [Base EXCEPT !.FreeCashFlow = Num(0)]}

PeriodRows == {Base, Earlier, Later, FlatEPS} \cup Deviations

\* What the provider may answer for one ticker's statements: the periods in
\* the order it lists them (at least one, at most n), or a failure (the
\* retrieval raises, or pd.concat cannot merge the three tables).
StatementResponses(n) ==
    {[raised |-> FALSE, rows |-> r] :
        r \in UNION {[1..k -> PeriodRows] : k \in 1..n}}
    \cup {[raised |-> TRUE, rows |-> <<>>]}

\* lines 206-210: the transposed per-ticker table, one row per period, tagged
\* with its ticker; Period is the row's place in the ticker's own sequence
TickerFrame(symbol, rows) ==
    [i \in DOMAIN rows |-> [Ticker |-> symbol, Period |-> i, items |-> rows[i]]]

RECURSIVE Concat(_)
\* pd.concat(data): the frames stacked in list order
Concat(frames) ==
    IF frames = <<>> THEN <<>> ELSE Head(frames) \o Concat(Tail(frames))

\* rows the table may still take while leaving one for every later ticker
RoomFor(i) == MaxRows - Len(Concat(data)) - (Len(tickers) - i)

\* lines 199-212: one iteration of the loop; an exception leaves the loop and
\* the script
fetch_fundamental_data_loop ==
    /\ pc = "fetch"
    /\ idx <= Len(tickers)
    /\ \E r \in Answer(financials, tickers[idx], StatementResponses(RoomFor(idx))) :
         /\ financials' = Remember(financials, tickers[idx], r)
         /\ data' = IF r.raised THEN data
                    ELSE Append(data, TickerFrame(tickers[idx], r.rows))
         /\ pc' = IF r.raised THEN "aborted" ELSE "fetch"
         /\ idx' = IF r.raised THEN idx ELSE idx + 1
    /\ UNCHANGED <<run, web, info, sp_500_tickers, dow_jones_tickers,
                   nasdaq_tickers, tickers, final_df, shifted, growth_filter,
                   selected_tickers, market_caps, weights, output1>>

\* lines 214-217 and 285: pd.concat raises on an empty list of frames
fetch_fundamental_data_concat ==
    /\ pc = "fetch"
    /\ idx > Len(tickers)
    /\ final_df' = Concat(data)
    /\ pc' = IF data = <<>> THEN "aborted" ELSE "filter"
    /\ UNCHANGED <<run, web, financials, info, sp_500_tickers, dow_jones_tickers,
                   nasdaq_tickers, tickers, idx, data, shifted, growth_filter,
                   selected_tickers, market_caps, weights, output1>>

\* ----------------------------------------------------- growth screener
\* Series.shift(1): row i reads row i - 1 of the whole table, the first row
\* reads nothing (NaN)
ShiftSource(i) == i - 1

Prior(df, i, col) ==
    IF ShiftSource(i) = 0 THEN NaN ELSE df[ShiftSource(i)].items[col]

\* a > b on float64 values: False when either is NaN
Gt(a, b) == ~IsNull(a) /\ ~IsNull(b) /\ Val(a) > Val(b)

\* n / d > p / q on float64 values (q > 0): NaN compares False, a zero
\* denominator gives +inf, -inf or NaN and does not raise
RatioGt(n, d, p, q) ==
    IF IsNull(n) \/ IsNull(d) THEN FALSE
    ELSE IF Val(d) = 0 THEN Val(n) > 0
    ELSE IF Val(d) > 0 THEN Val(n) * q > p * Val(d)
    ELSE Val(n) * q < p * Val(d)

\* n / d < p / q on float64 values (q > 0)
RatioLt(n, d, p, q) ==
    IF IsNull(n) \/ IsNull(d) THEN FALSE
    ELSE IF Val(d) = 0 THEN Val(n) < 0
    ELSE IF Val(d) > 0 THEN Val(n) * q < p * Val(d)
    ELSE Val(n) * q > p * Val(d)

\* lines 229-240, one row of the Boolean series
GrowthRow(df, i) ==
    LET r == df[i].items IN
    /\ Gt(r.TotalRevenue, Prior(df, i, "TotalRevenue"))
    /\ RatioGt(r.OperatingIncome, r.TotalRevenue, 1, 10)
    /\ RatioGt(r.EBITDA, r.TotalRevenue, 1, 10)
    /\ Gt(r.DilutedEPS, Prior(df, i, "DilutedEPS"))
    /\ RatioLt(r.NetDebt, r.StockholdersEquity, 1, 1)
    /\ ~IsNull(r.InterestExpense) /\ ~IsNull(r.OperatingIncome)
         /\ 10 * Val(r.InterestExpense) < Val(r.OperatingIncome)
    /\ Gt(r.FreeCashFlow, Num(0))
    /\ RatioGt(r.NetIncome, r.StockholdersEquity, 3, 20)
    /\ RatioLt(r.SGA, r.TotalRevenue, 1, 5)
    /\ RatioLt(r.CapitalExpenditure, r.TotalRevenue, 1, 5)

GrowthFilter(df) == [i \in DOMAIN df |-> GrowthRow(df, i)]

\* A line item that is null in every row may be a column the table does not
\* have at all (no ticker reports it): df[col] then raises KeyError.
MayLackColumn(df) == \E c \in Columns : \A i \in DOMAIN df : IsNull(df[i].items[c])

FilterOutcomes(df) == {"ok"} \cup (IF MayLackColumn(df) THEN {"KeyError"} ELSE {})

\* line 289
get_growth_filter ==
    /\ pc = "filter"
    /\ \E o \in FilterOutcomes(final_df) :
         /\ growth_filter' = IF o = "ok" THEN GrowthFilter(final_df) ELSE growth_filter
         /\ shifted' = IF o = "ok" THEN [i \in DOMAIN final_df |-> ShiftSource(i)]
                       ELSE shifted
         /\ pc' = IF o = "ok" THEN "select" ELSE "aborted"
    /\ UNCHANGED <<run, web, financials, info, sp_500_tickers, dow_jones_tickers,
                   nasdaq_tickers, tickers, idx, data, final_df,
                   selected_tickers, market_caps, weights, output1>>

RECURSIVE Masked(_, _)
\* final_df[growth_filter]['Ticker']: the tickers of the rows the mask keeps
Masked(df, mask) ==
    IF df = <<>> THEN <<>>
    ELSE (IF Head(mask) THEN <<Head(df).Ticker>> ELSE <<>>)
         \o Masked(Tail(df), Tail(mask))

\* the masked column taken as it is, repeated tickers kept
KeepAll(s) == s

RECURSIVE Unique(_)
\* Series.unique(): the distinct values in order of first appearance
Unique(s) ==
    IF s = <<>> THEN <<>>
    ELSE LET u == Unique(SubSeq(s, 1, Len(s) - 1))
         IN  IF s[Len(s)] \in Range(u) THEN u ELSE Append(u, s[Len(s)])

\* line 290
select_tickers ==
    /\ pc = "select"
    /\ selected_tickers' = Unique(Masked(final_df, growth_filter))
    /\ pc' = "weights"
    /\ idx' = 1
    /\ UNCHANGED <<run, web, financials, info, sp_500_tickers, dow_jones_tickers,
                   nasdaq_tickers, tickers, data, final_df, shifted,
                   growth_filter, market_caps, weights, output1>>

\* ---------------------------------------------------- weight calculator
\* What the provider may answer for one ticker's info: a dict whose
\* 'marketCap' is absent (get returns None) or a number, or a failure.
CapResponses ==
    {[raised |-> FALSE, cap |-> c] : c \in {None} \cup {Num(x) : x \in 0..MaxCap}}
    \cup {[raised |-> TRUE, cap |-> None]}

\* `if market_cap is not None:` in place of the truthiness test
NotNone(cap) == ~IsNull(cap)

\* `if market_cap:` (line 259): None and 0 are both falsy
Truthy(cap) == ~IsNull(cap) /\ Val(cap) # 0

\* market_caps[ticker] = market_cap on an insertion-ordered dict
DictSet(d, k, v) ==
    IF \E i \in DOMAIN d : d[i].ticker = k
    THEN [i \in DOMAIN d |-> IF d[i].ticker = k THEN [ticker |-> k, cap |-> v] ELSE d[i]]
    ELSE Append(d, [ticker |-> k, cap |-> v])

RECURSIVE SumCaps(_)
\* sum(market_caps.values()) (line 264)
SumCaps(d) == IF d = <<>> THEN 0 ELSE Head(d).cap + SumCaps(Tail(d))

\* the percentage cut to two decimals instead of rounded
Truncate2(cap, total) == (10000 * cap) \div total

\* round((cap / total) * 100, 2) in hundredths of a percent: the nearest
\* hundredth, an exact half going to the even neighbour
Round2(cap, total) ==
    LET q == (10000 * cap) \div total
        r == (10000 * cap) % total
    IN  IF 2 * r < total THEN q
        ELSE IF 2 * r > total THEN q + 1
        ELSE IF q % 2 = 0 THEN q ELSE q + 1

\* lines 267-270; only evaluated when the division is defined
TickerWeights(d) ==
    [i \in DOMAIN d |->
        [ticker |-> d[i].ticker, weight |-> Round2(d[i].cap, SumCaps(d))]]

\* the division of line 268 raises ZeroDivisionError on a zero total
DivisionRaises(d) == d # <<>> /\ SumCaps(d) = 0

\* lines 255-262: one iteration of the loop
calculate_market_cap_weights_loop ==
    /\ pc = "weights"
    /\ idx <= Len(selected_tickers)
    /\ \E r \in Answer(info, selected_tickers[idx], CapResponses) :
         /\ info' = Remember(info, selected_tickers[idx], r)
         /\ market_caps' = IF ~r.raised /\ Truthy(r.cap)
                           THEN DictSet(market_caps, selected_tickers[idx], Val(r.cap))
                           ELSE market_caps
         /\ pc' = IF r.raised THEN "aborted" ELSE "weights"
         /\ idx' = IF r.raised THEN idx ELSE idx + 1
    /\ UNCHANGED <<run, web, financials, sp_500_tickers, dow_jones_tickers,
                   nasdaq_tickers, tickers, data, final_df, shifted,
                   growth_filter, selected_tickers, weights, output1>>

\* lines 264-272, 293 and the printing of lines 295-297
calculate_market_cap_weights_return ==
    /\ pc = "weights"
    /\ idx > Len(selected_tickers)
    /\ weights' = IF DivisionRaises(market_caps) THEN weights
                  ELSE TickerWeights(market_caps)
    /\ pc' = IF DivisionRaises(market_caps) THEN "aborted" ELSE "done"
    /\ UNCHANGED <<run, web, financials, info, sp_500_tickers, dow_jones_tickers,
                   nasdaq_tickers, tickers, idx, data, final_df, shifted,
                   growth_filter, selected_tickers, market_caps, output1>>

\* ------------------------------------------------------- whole script
\* The script is executed a second time against the same ticker sources and
\* the same provider answers; the first execution's output is kept.
run_again ==
    /\ pc = "done"
    /\ run = 1
    /\ run' = 2
    /\ output1' = weights
    /\ pc' = "sp500"
    /\ sp_500_tickers' = <<>>
    /\ dow_jones_tickers' = <<>>
    /\ nasdaq_tickers' = <<>>
    /\ tickers' = <<>>
    /\ idx' = 1
    /\ data' = <<>>
    /\ final_df' = <<>>
    /\ shifted' = <<>>
    /\ growth_filter' = <<>>
    /\ selected_tickers' = <<>>
    /\ market_caps' = <<>>
    /\ weights' = <<>>
    /\ UNCHANGED <<web, financials, info>>

\* the state of a fresh interpreter at position p
Fresh(p) ==
    /\ pc = p
    /\ run = 1
    /\ sp_500_tickers = <<>>
    /\ dow_jones_tickers = <<>>
    /\ nasdaq_tickers = <<>>
    /\ idx = 1
    /\ data = <<>>
    /\ final_df = <<>>
    /\ shifted = <<>>
    /\ growth_filter = <<>>
    /\ market_caps = <<>>
    /\ weights = <<>>
    /\ output1 = <<>>

\* the universe after remapping holds these symbols at most
PipelineSymbols == {AAPL, BRK_DASH_B}

\* fixed ticker-source answers of the whole-script runs
PipelineWebs ==
    {w \in [{"sp500", "dow", "nasdaq"} -> WebResponses] :
        /\ w["sp500"] \in {[status |-> "ok", page |-> <<AAPL, BRK_DOT_B>>],
                           [status |-> "ok", page |-> <<AAPL>>]}
        /\ w["dow"] \in {[status |-> "ok", page |-> <<AAPL>>],
                         [status |-> "network_error", page |-> <<>>]}
        /\ w["nasdaq"] \in {[status |-> "ok", page |-> <<BRK_DOT_B>>],
                            [status |-> "no_table", page |-> <<>>]}}

\* fixed statement answers of the whole-script runs
PipelineStatements ==
    {[raised |-> FALSE, rows |-> <<Earlier>>], [raised |-> FALSE, rows |-> <<Base>>],
     [raised |-> FALSE, rows |-> <<Earlier, Base>>],
     [raised |-> TRUE, rows |-> <<>>]}

\* fixed market-cap answers of the whole-script runs
PipelineCaps ==
    {[raised |-> FALSE, cap |-> None], [raised |-> FALSE, cap |-> Num(1)],
     [raised |-> FALSE, cap |-> Num(3)], [raised |-> TRUE, cap |-> None]}

\* The whole script (lines 274-297), run twice on fixed external answers
Init ==
    /\ Fresh("sp500")
    /\ tickers = <<>>
    /\ selected_tickers = <<>>
    /\ web \in PipelineWebs
    /\ financials \in [PipelineSymbols -> PipelineStatements]
    /\ info \in [PipelineSymbols -> PipelineCaps]

Next ==
    \/ fetch_sp500_tickers
    \/ get_dow_jones_tickers
    \/ get_nasdaq_100_ticker_symbols
    \/ merge_and_deduplicate_dynamic
    \/ RemapSymbols
    \/ download_stock_data
    \/ fetch_fundamental_data_loop
    \/ fetch_fundamental_data_concat
    \/ get_growth_filter
    \/ select_tickers
    \/ calculate_market_cap_weights_loop
    \/ calculate_market_cap_weights_return
    \/ run_again

Spec == Init /\ [][Next]_vars

\* The universe builder on any answers of the three ticker sources
InitUniverse ==
    /\ Fresh("sp500")
    /\ tickers = <<>>
    /\ selected_tickers = <<>>
    /\ web = EmptyFn
    /\ financials = EmptyFn
    /\ info = EmptyFn

NextUniverse ==
    \/ fetch_sp500_tickers
    \/ get_dow_jones_tickers
    \/ get_nasdaq_100_ticker_symbols
    \/ merge_and_deduplicate_dynamic
    \/ RemapSymbols

SpecUniverse == InitUniverse /\ [][NextUniverse]_vars

\* The statement assembler and the growth screener on any universe of
\* distinct tickers and any statement answers
InitScreen ==
    /\ Fresh("fetch")
    /\ tickers \in {s \in SeqsUpTo(ScreenSymbols, MaxRows) : s # <<>> /\ NoDuplicates(s)}
    /\ selected_tickers = <<>>
    /\ web = EmptyFn
    /\ financials = EmptyFn
    /\ info = EmptyFn

NextScreen ==
    \/ fetch_fundamental_data_loop
    \/ fetch_fundamental_data_concat
    \/ get_growth_filter
    \/ select_tickers

SpecScreen == InitScreen /\ [][NextScreen]_vars

\* calculate_market_cap_weights on any ticker list and any market-cap answers
InitWeights ==
    /\ Fresh("weights")
    /\ tickers = <<>>
    /\ selected_tickers \in SeqsUpTo(WeightSymbols, MaxSel)
    /\ web = EmptyFn
    /\ financials = EmptyFn
    /\ info = EmptyFn

NextWeights ==
    \/ calculate_market_cap_weights_loop
    \/ calculate_market_cap_weights_return

SpecWeights == InitWeights /\ [][NextWeights]_vars

\* ============================================================== claims
Abs(x) == IF x < 0 THEN -x ELSE x

RECURSIVE SetSum(_, _)
SetSum(S, f) ==
    IF S = {} THEN 0
    ELSE LET x == CHOOSE y \in S : TRUE IN f[x] + SetSum(S \ {x}, f)

RECURSIVE WeightSum(_)
WeightSum(w) == IF w = <<>> THEN 0 ELSE Head(w).weight + WeightSum(Tail(w))

PassingRows(t) == {i \in DOMAIN growth_filter : final_df[i].Ticker = t /\ growth_filter[i]}

\* C1: every row's prior-period value comes from a row of the same ticker:
\* the row that shift(1) reads for row i, when there is one, has row i's ticker.
C1_LagStaysWithinTicker ==
    \A i \in DOMAIN shifted :
        shifted[i] # 0 => final_df[shifted[i]].Ticker = final_df[i].Ticker

\* C2: the row of a ticker's earliest period (the first of its own sequence)
\* gets False from the growth filter.
C2_FirstPeriodScreensFalse ==
    \A i \in DOMAIN growth_filter : final_df[i].Period = 1 => ~growth_filter[i]

\* a ratio criterion of the row has a null numerator or a null or zero denominator
MissingOrZero(r) ==
    \/ IsNull(r.TotalRevenue) \/ IsNull(r.StockholdersEquity)
    \/ (~IsNull(r.TotalRevenue) /\ Val(r.TotalRevenue) = 0)
    \/ (~IsNull(r.StockholdersEquity) /\ Val(r.StockholdersEquity) = 0)
    \/ IsNull(r.OperatingIncome) \/ IsNull(r.EBITDA) \/ IsNull(r.NetDebt)
    \/ IsNull(r.NetIncome) \/ IsNull(r.SGA) \/ IsNull(r.CapitalExpenditure)

\* C3: a row with a null numerator, a null denominator or a zero denominator
\* in a ratio criterion evaluates to False (no criterion is satisfied on
\* missing data or on a division by zero).
C3_MissingOrZeroScreensFalse ==
    \A i \in DOMAIN growth_filter :
        MissingOrZero(final_df[i].items) => ~growth_filter[i]

\* the remapping table of the universe builder
NormalizedSymbol(t) ==
    IF t = BRK_DOT_B THEN BRK_DASH_B ELSE IF t = BF_DOT_B THEN BF_DASH_B ELSE t

SourceUnion == Range(sp_500_tickers) \cup Range(dow_jones_tickers) \cup Range(nasdaq_tickers)

\* C4: after merging and remapping, the universe holds exactly the distinct
\* normalized symbols of the sources, each exactly once.
C4_UniverseIsUnionEachOnce ==
    pc = "download" =>
        /\ NoDuplicates(tickers)
        /\ Range(tickers) = {NormalizedSymbol(t) : t \in SourceUnion}

SourceList(s) ==
    IF s = "sp500" THEN sp_500_tickers
    ELSE IF s = "dow" THEN dow_jones_tickers ELSE nasdaq_tickers

\* C5: an unavailable ticker source does not abort the script and contributes
\* the empty list.
C5_UnavailableSourceIsNotFatal ==
    \A s \in DOMAIN web :
        web[s].status # "ok" => pc # "aborted" /\ SourceList(s) = <<>>

\* C6: when the script has ended, every ticker of the universe whose statements
\* the provider gave is in the combined table, and every selected ticker whose
\* market cap the provider gave is in the weights.
C6_BadTickerDoesNotStopTheRest ==
    pc \in {"done", "aborted"} =>
        /\ \A k \in DOMAIN tickers :
               (tickers[k] \in DOMAIN financials /\ ~financials[tickers[k]].raised)
                   => \E i \in DOMAIN final_df : final_df[i].Ticker = tickers[k]
        /\ \A k \in DOMAIN selected_tickers :
               (selected_tickers[k] \in DOMAIN info
                    /\ ~info[selected_tickers[k]].raised
                    /\ Truthy(info[selected_tickers[k]].cap))
                   => \E i \in DOMAIN weights : weights[i].ticker = selected_tickers[k]

\* the input tickers whose provider market cap is not None
IncludedAvailable ==
    {t \in Range(selected_tickers) : t \in DOMAIN info /\ ~IsNull(info[t].cap)}

\* the input tickers whose provider market cap is neither None nor zero
IncludedNonzero ==
    {t \in IncludedAvailable : Val(info[t].cap) # 0}

CapOf == [t \in DOMAIN info |-> IF IsNull(info[t].cap) THEN 0 ELSE Val(info[t].cap)]

\* the returned list has one entry for each ticker of Inc, its weight the
\* percentage of the caps of Inc rounded to the nearest hundredth
WeightsAreSharesOf(Inc) ==
    /\ {weights[i].ticker : i \in DOMAIN weights} = Inc
    /\ \A i, j \in DOMAIN weights : weights[i].ticker = weights[j].ticker => i = j
    /\ \A i \in DOMAIN weights :
           2 * Abs(weights[i].weight * SetSum(Inc, CapOf)
                     - 10000 * CapOf[weights[i].ticker]) <= SetSum(Inc, CapOf)

\* C7 as stated: one entry for exactly the tickers whose market cap is
\* available (not None), weighted by their share of the included caps.
C7_WeightsOfAvailableCaps ==
    pc = "done" => WeightsAreSharesOf(IncludedAvailable)

\* C7 amended: one entry for exactly the tickers whose market cap is available
\* and not zero, weighted by their share of the included caps.
C7_WeightsOfNonzeroCaps ==
    pc = "done" => WeightsAreSharesOf(IncludedNonzero)

\* C7's case: caps 1 and 3 give 25.00 and 75.00, a ticker with cap 0 is left out
C7_Witness ==
    /\ pc = "done"
    /\ \E t \in Range(selected_tickers) : ~IsNull(info[t].cap) /\ Val(info[t].cap) = 0
    /\ \E i, j \in DOMAIN weights : weights[i].weight = 2500 /\ weights[j].weight = 7500

\* C8: the second execution on the same answers prints what the first printed.
C8_TwoRunsSameOutput ==
    (run = 2 /\ pc = "done") => weights = output1

\* C9: the selected tickers are the tickers with at least one passing row,
\* each once.
C9_SelectedAreTickersWithPassingRow ==
    pc = "weights" =>
        /\ NoDuplicates(selected_tickers)
        /\ Range(selected_tickers) = {t \in Range(tickers) : PassingRows(t) # {}}

\* C9's case: one ticker with two passing rows, selected once, beside a ticker
\* with rows of which none passes
C9_Witness ==
    /\ pc = "weights"
    /\ Len(selected_tickers) = 1
    /\ Cardinality(PassingRows(selected_tickers[1])) >= 2
    /\ \E i \in DOMAIN final_df : PassingRows(final_df[i].Ticker) = {}

\* C10 as stated: in every invocation the weights sum to 100.00 within 0.005
\* per returned entry, and no division by a zero total happens.
C10_WeightsSumTo100 ==
    /\ ~DivisionRaises(market_caps)
    /\ pc = "done" => 2 * Abs(WeightSum(weights) - 10000) <= Len(weights)

\* C10 amended: an invocation that returns entries has weights summing to
\* 100.00 within 0.005 per entry; one in which no ticker has a market cap
\* returns no entry; no division by a zero total happens.
C10_NonEmptyWeightsSumTo100 ==
    /\ ~DivisionRaises(market_caps)
    /\ pc = "done" =>
          /\ (weights = <<>>) = (IncludedNonzero = {})
          /\ weights # <<>> => 2 * Abs(WeightSum(weights) - 10000) <= Len(weights)

\* C10's case: three entries whose rounded weights leave a residual
C10_Witness ==
    /\ pc = "done"
    /\ Len(weights) = 3
    /\ WeightSum(weights) # 10000

============================================================================
